---- MODULE Spec2Model ----
(***************************************************************************)
(* Model of the student-management HTTP service (src/main.py).             *)
(*                                                                         *)
(* State: the `students` table with its AUTO_INCREMENT counter, the        *)
(* sessions made by SessionLocal(), and one record of locals per request.  *)
(* A request is served in the steps at which its handler talks to the      *)
(* database (query, commit, refresh); the steps of different requests      *)
(* interleave, as the framework runs each request in its own worker.       *)
(* Text values are sequences of one-character strings, so that the empty   *)
(* string, e-mail syntax and integer parsing are computed, not assumed.    *)
(***************************************************************************)
EXTENDS Integers, Sequences, FiniteSets, TLC

\* ------------------------------------------------------------------ bounds
NumRequests == 2
MaxPathId == 2

Requests == 1..NumRequests
PathIds == 1..MaxPathId

\* ------------------------------------------------------------ JSON payloads
JNumber(s) == [t |-> "number", v |-> s]
JString(s) == [t |-> "string", v |-> s]
JArray == [t |-> "array", v |-> <<"[", "]">>]

Digits == <<"0", "1", "2", "3", "4", "5", "6", "7", "8", "9">>

IsDigit(c) == \E d \in 1..Len(Digits) : Digits[d] = c

DigitValue(c) == (CHOOSE d \in 1..Len(Digits) : Digits[d] = c) - 1

AllDigits(s) == Len(s) > 0 /\ \A i \in 1..Len(s) : IsDigit(s[i])

RECURSIVE ParseInt(_)
ParseInt(s) ==
    IF Len(s) = 0 THEN 0
    ELSE 10 * ParseInt(SubSeq(s, 1, Len(s) - 1)) + DigitValue(s[Len(s)])

\* A validator that lets every JSON value through as text.
ValidStrAny(j) == TRUE

\* name: str (line 50), address: str (line 52): any JSON string, the empty one
\* included.
ValidStr(j) == j.t = "string"

\* age: int (line 51): a JSON integer, or a string of digits, which is coerced.
ValidInt(j) == j.t \in {"number", "string"} /\ AllDigits(j.v)

AtPositions(s) == {i \in 1..Len(s) : s[i] = "@"}

DotPositions(s) == {i \in 1..Len(s) : s[i] = "."}

\* email: str in place of EmailStr: any JSON string.
ValidEmailAnyStr(j) == j.t = "string"

\* email: EmailStr (line 53): a string local@domain with one "@", a non-empty
\* local part and a dotted domain that neither starts nor ends with the dot.
ValidEmail(j) ==
    /\ j.t = "string"
    /\ Cardinality(AtPositions(j.v)) = 1
    /\ LET at == CHOOSE i \in AtPositions(j.v) : TRUE
       IN /\ at > 1
          /\ \E d \in DotPositions(j.v) : d > at + 1 /\ d < Len(j.v)
          /\ \A d \in DotPositions(j.v) : d # at + 1 /\ d # Len(j.v) /\ d # 1

Fields == {"name", "age", "address", "email"}

\* StudentCreate's validation of a request body.
StudentCreateValid(body) ==
    /\ Fields \subseteq DOMAIN body
    /\ ValidStr(body.name)
    /\ ValidInt(body.age)
    /\ ValidStr(body.address)
    /\ ValidEmail(body.email)

\* The validated model: the four fields, age converted to an integer.
StudentCreate(body) ==
    [name |-> body.name.v, age |-> ParseInt(body.age.v),
     address |-> body.address.v, email |-> body.email.v]

\* --------------------------------------------------------------- test data
EmailA == <<"a", "@", "x", ".", "y">>
EmailB == <<"b", "@", "x", ".", "y">>

BodyAlice ==
    [name |-> JString(<<"A", "l">>), age |-> JNumber(<<"2", "0">>),
     address |-> JString(<<"M", "1">>), email |-> JString(EmailA)]

\* Same name as BodyAlice, every other field different; age sent as a string.
BodyAlice2 ==
    [name |-> JString(<<"A", "l">>), age |-> JString(<<"2", "1">>),
     address |-> JString(<<"S", "2">>), email |-> JString(EmailB)]

\* Same e-mail as BodyAlice, empty name and address.
BodyEmpty ==
    [name |-> JString(<<>>), age |-> JNumber(<<"2", "2">>),
     address |-> JString(<<>>), email |-> JString(EmailA)]

BodyNoAge ==
    [name |-> JString(<<"A", "l">>),
     address |-> JString(<<"M", "1">>), email |-> JString(EmailA)]

BodyBadAge == [BodyAlice EXCEPT !.age = JString(<<"x">>)]

BodyBadName == [BodyAlice EXCEPT !.name = JArray]

BodyBadEmail ==
    [BodyAlice EXCEPT !.email = JString(<<"n", "o", ".", "p", "e">>)]

Bodies ==
    {BodyAlice, BodyAlice2, BodyEmpty, BodyNoAge, BodyBadAge, BodyBadName,
     BodyBadEmail}

NoBody == [none |-> JArray]


\* ------------------------------------------------------------------- state
VARIABLES
    students,        \* the table: id -> row [name, age, address, email]
    auto_increment,  \* the id the table gives to the next INSERT
    sessions,        \* per session: whether it is open, the statements it ran
    pc,              \* per request: where its handling is
    op,              \* per request: the endpoint it is routed to
    student_id,      \* per request: the path parameter (0: the route has none)
    body,            \* per request: the JSON body (NoBody: the route has none)
    db,              \* per request: the session get_db yielded (0: none yet)
    db_student,      \* per request: the ORM object the handler holds
    response         \* per request: what the caller receives

vars ==
    <<students, auto_increment, sessions, pc, op, student_id, body, db,
      db_student, response>>

\* The row of a table with its key: what StudentOut serialises.
StudentOut(tbl, i) ==
    [id |-> i, name |-> tbl[i].name, age |-> tbl[i].age,
     address |-> tbl[i].address, email |-> tbl[i].email]

NoStudent ==
    [id |-> 0, name |-> <<>>, age |-> 0, address |-> <<>>, email |-> <<>>]

NoResponse ==
    [status |-> 0, error |-> "", detail |-> "", students |-> {}, message |-> 0]

\* A 200 carrying student objects (one, or the list).
Ok(rows) == [NoResponse EXCEPT !.status = 200, !.students = rows]

\* raise HTTPException(status_code=404, detail="Student not found")
NotFound ==
    [NoResponse EXCEPT !.status = 404, !.error = "HTTPException",
                       !.detail = "Student not found"]

\* The framework's answer to a body StudentCreate rejects.
ValidationError ==
    [NoResponse EXCEPT !.status = 422, !.error = "RequestValidationError"]

\* An exception no handler catches: the framework answers 500.
Unhandled(exc) == [NoResponse EXCEPT !.status = 500, !.error = exc]

\* {"message": f"Student with ID {student_id} deleted"}
Deleted(i) == [NoResponse EXCEPT !.status = 200, !.message = i]

\* ----------------------------------------------------------------- storage
\* A Student built with the address taken from the name.
StudentMixedUp(student) ==
    [name |-> student.name, age |-> student.age,
     address |-> student.name, email |-> student.email]

\* Student(name=student.name, age=student.age, address=student.address,
\* email=student.email): the row to insert.
Student(student) ==
    [name |-> student.name, age |-> student.age,
     address |-> student.address, email |-> student.email]

\* A column without unique=True: no e-mail is ever taken.
EmailNeverTaken(tbl, email, self) == FALSE

\* email = Column(String(255), unique=True, ...): another row holds the e-mail.
EmailTaken(tbl, email, self) ==
    \E i \in DOMAIN tbl : i # self /\ tbl[i].email = email

\* A delete that is never written to the table.
DeleteNothing(tbl, i) == tbl

\* db.delete(db_student); db.commit(): DELETE ... WHERE id = i.
Delete(tbl, i) == [j \in DOMAIN tbl \ {i} |-> tbl[j]]

\* A query without its filter: the first row of the table, whatever i is.
QueryUnfiltered(tbl, i) ==
    IF DOMAIN tbl = {} THEN NoStudent
    ELSE StudentOut(tbl, CHOOSE j \in DOMAIN tbl : \A k \in DOMAIN tbl : j <= k)

\* db.query(Student).filter(Student.id == student_id).first(): the row with
\* that key, or None.
Query(tbl, i) == IF i \in DOMAIN tbl THEN StudentOut(tbl, i) ELSE NoStudent

RowAlice == StudentCreate(BodyAlice)
RowAlice2 == StudentCreate(BodyAlice2)

EmptyTable == [i \in {} |-> RowAlice]

\* What the database may hold when the process starts (create_all keeps the
\* rows of an existing table): a table and its AUTO_INCREMENT counter.
InitialTables ==
    {<<EmptyTable, 1>>,
     <<1 :> RowAlice, 2>>,
     <<2 :> RowAlice2, 3>>,
     <<(1 :> RowAlice) @@ (2 :> RowAlice2), 3>>}

NoSession == [state |-> "none", statements |-> 0]

Init ==
    /\ \E t \in InitialTables : students = t[1] /\ auto_increment = t[2]
    /\ sessions = [s \in Requests |-> NoSession]
    /\ pc = [r \in Requests |-> "idle"]
    /\ op = [r \in Requests |-> ""]
    /\ student_id = [r \in Requests |-> 0]
    /\ body = [r \in Requests |-> NoBody]
    /\ db = [r \in Requests |-> 0]
    /\ db_student = [r \in Requests |-> NoStudent]
    /\ response = [r \in Requests |-> NoResponse]

\* ------------------------------------------------------------------ get_db
\* db = SessionLocal(): a session of the request's own, named after it.
get_db(r) == r

SessionLocal(ss, s) == [ss EXCEPT ![s] = [state |-> "open", statements |-> 0]]

\* A statement (or a commit) sent to the database on session s.
Execute(ss, s) == [ss EXCEPT ![s].statements = @ + 1]

\* db.close() after the yield but outside a finally: skipped when the handler
\* raised.
get_db_no_finally(ss, s, resp) ==
    IF resp.status = 200 THEN [ss EXCEPT ![s].state = "closed"] ELSE ss

\* finally: db.close(), whatever the handler returned or raised.
get_db_finally(ss, s, resp) == [ss EXCEPT ![s].state = "closed"]

\* -------------------------------------------------------------- the routes
\* Requests are numbered in their order of arrival. A request arrives with
\* the first step of its handling: the framework resolves Depends(get_db),
\* validates the body against StudentCreate, and calls the handler only if
\* the body is valid.
Arrive(r, o, i, b) ==
    /\ pc[r] = "idle"
    /\ \A q \in 1..(r - 1) : pc[q] # "idle"
    /\ op' = [op EXCEPT ![r] = o]
    /\ student_id' = [student_id EXCEPT ![r] = i]
    /\ body' = [body EXCEPT ![r] = b]
    /\ db' = [db EXCEPT ![r] = get_db(r)]

\* The request ends with resp: get_db's finally runs and the response goes out.
\* ss: the sessions after the statements of this step.
Return(r, s, ss, resp) ==
    /\ response' = [response EXCEPT ![r] = resp]
    /\ sessions' = get_db_finally(ss, s, resp)
    /\ pc' = [pc EXCEPT ![r] = "done"]

\* The handler goes on to its next statement.
Goto(r, ss, label) ==
    /\ sessions' = ss
    /\ pc' = [pc EXCEPT ![r] = label]
    /\ UNCHANGED response

\* GET /students
get_students(r) ==
    /\ Arrive(r, "get_students", 0, NoBody)
    /\ Return(r, get_db(r), Execute(SessionLocal(sessions, get_db(r)), get_db(r)),
              Ok({StudentOut(students, i) : i \in DOMAIN students}))
    /\ UNCHANGED <<students, auto_increment, db_student>>

\* GET /students/{student_id}
get_student(r) ==
    \E i \in PathIds :
        /\ Arrive(r, "get_student", i, NoBody)
        /\ Return(r, get_db(r),
                  Execute(SessionLocal(sessions, get_db(r)), get_db(r)),
                  IF Query(students, i) = NoStudent
                  THEN NotFound ELSE Ok({Query(students, i)}))
        /\ UNCHANGED <<students, auto_increment, db_student>>

\* db.refresh(db_student); return db_student: the row is read again by its
\* key, and the response is made from what was read.
Refresh(r) ==
    /\ pc[r] = "refresh"
    /\ LET row == Query(students, db_student[r].id)
       IN IF row # NoStudent
          THEN /\ db_student' = [db_student EXCEPT ![r] = row]
               /\ Return(r, db[r], Execute(sessions, db[r]), Ok({row}))
          ELSE /\ Return(r, db[r], Execute(sessions, db[r]),
                         Unhandled("InvalidRequestError"))
               /\ UNCHANGED db_student
    /\ UNCHANGED <<students, auto_increment, op, student_id, body, db>>

\* POST /students: db.add(db_student); db.commit(). The INSERT takes the next
\* id (also when it then fails: the counter is not rolled back) and fails on a
\* duplicate e-mail.
create_student(r) ==
    \E b \in Bodies :
        /\ Arrive(r, "create_student", 0, b)
        /\ IF ~StudentCreateValid(b)
           THEN /\ Return(r, get_db(r), SessionLocal(sessions, get_db(r)),
                          ValidationError)
                /\ UNCHANGED <<students, auto_increment, db_student>>
           ELSE LET student == Student(StudentCreate(b))
                    ss == Execute(SessionLocal(sessions, get_db(r)), get_db(r))
                IN /\ auto_increment' = auto_increment + 1
                   /\ IF EmailTaken(students, student.email, 0)
                      THEN /\ Return(r, get_db(r), ss, Unhandled("IntegrityError"))
                           /\ UNCHANGED <<students, db_student>>
                      ELSE /\ students' = (auto_increment :> student) @@ students
                           /\ db_student' = [db_student EXCEPT
                                ![r] = [id |-> auto_increment] @@ student]
                           /\ Goto(r, ss, "refresh")

\* db.query(Student).filter(Student.id == student_id).first(), and the 404 of
\* update_student and delete_student when it finds nothing.
Lookup(r, i) ==
    LET ss == Execute(SessionLocal(sessions, get_db(r)), get_db(r))
    IN /\ IF Query(students, i) # NoStudent
          THEN /\ db_student' = [db_student EXCEPT ![r] = Query(students, i)]
               /\ Goto(r, ss, "loaded")
          ELSE /\ Return(r, get_db(r), ss, NotFound)
               /\ UNCHANGED db_student
       /\ UNCHANGED <<students, auto_increment>>

\* PUT /students/{student_id}: the query.
update_student(r) ==
    \E i \in PathIds, b \in Bodies :
        /\ Arrive(r, "update_student", i, b)
        /\ IF ~StudentCreateValid(b)
           THEN /\ Return(r, get_db(r), SessionLocal(sessions, get_db(r)),
                          ValidationError)
                /\ UNCHANGED <<students, auto_increment, db_student>>
           ELSE Lookup(r, i)

\* The attributes the handler's four assignments change on the loaded object.
Changed(loaded, updated_student) ==
    {f \in Fields : updated_student[f] # loaded[f]}

\* PUT /students/{student_id}: the four assignments and db.commit(). The flush
\* issues UPDATE ... SET <the changed attributes> WHERE id = <the loaded id>,
\* and nothing when no attribute changed.
update_student_commit(r) ==
    /\ pc[r] = "loaded" /\ op[r] = "update_student"
    /\ LET updated_student == StudentCreate(body[r])
           i == db_student[r].id
           changed == Changed(db_student[r], updated_student)
           ss == Execute(sessions, db[r])
       IN IF changed = {}
          THEN /\ Goto(r, ss, "refresh")
               /\ UNCHANGED students
          ELSE IF i \notin DOMAIN students
          THEN /\ Return(r, db[r], ss, Unhandled("StaleDataError"))
               /\ UNCHANGED students
          ELSE IF "email" \in changed
                  /\ EmailTaken(students, updated_student.email, i)
          THEN /\ Return(r, db[r], ss, Unhandled("IntegrityError"))
               /\ UNCHANGED students
          ELSE /\ students' = [students EXCEPT
                    ![i] = [f \in Fields |->
                              IF f \in changed THEN updated_student[f]
                              ELSE @[f]]]
               /\ Goto(r, ss, "refresh")
    /\ UNCHANGED <<auto_increment, op, student_id, body, db, db_student>>

\* DELETE /students/{student_id}: the query.
delete_student(r) ==
    \E i \in PathIds :
        /\ Arrive(r, "delete_student", i, NoBody)
        /\ Lookup(r, i)

\* DELETE /students/{student_id}: db.delete(db_student); db.commit(). The
\* flush issues DELETE ... WHERE id = <the loaded id>; a row already gone is
\* only warned about, and the handler returns its message.
delete_student_commit(r) ==
    /\ pc[r] = "loaded" /\ op[r] = "delete_student"
    /\ students' = Delete(students, db_student[r].id)
    /\ Return(r, db[r], Execute(sessions, db[r]), Deleted(student_id[r]))
    /\ UNCHANGED <<auto_increment, op, student_id, body, db, db_student>>

Next ==
    \E r \in Requests :
        \/ get_students(r)
        \/ get_student(r)
        \/ create_student(r)
        \/ update_student(r)
        \/ update_student_commit(r)
        \/ delete_student(r)
        \/ delete_student_commit(r)
        \/ Refresh(r)

Spec == Init /\ [][Next]_vars

\* ---------------------------------------------------------- claim helpers
\* Request r arrives in this step, routed to endpoint o.
Arrives(r, o) == pc[r] = "idle" /\ pc'[r] # "idle" /\ op'[r] = o

IsCreate(r) == op[r] = "create_student" /\ response[r].status # 422

\* The INSERT of create request r succeeded: r holds the object with its id.
Created(r) == op[r] = "create_student" /\ db_student[r].id # 0

\* The record a create request sent: its validated fields under the id it got.
CreatedRecord(r) == [id |-> db_student[r].id] @@ StudentCreate(body[r])

\* Request q has committed an update or a delete of id i.
HasWrittenTo(q, i) ==
    /\ student_id[q] = i
    /\ \/ /\ op[q] = "update_student"
          /\ \/ pc[q] = "refresh"
             \/ pc[q] = "done" /\ response[q].error \in {"", "InvalidRequestError"}
       \/ op[q] = "delete_student" /\ pc[q] = "done" /\ response[q].status = 200

Untouched(i) == \A q \in Requests : ~HasWrittenTo(q, i)

\* Request q has committed no update and no delete.
ReadOnly(q) == \A i \in PathIds : ~HasWrittenTo(q, i)

\* -------------------------------------------------------------------- C1
UniqueEmails ==
    \A i, j \in DOMAIN students :
        i # j => students[i].email # students[j].email

CreateDecidedByEmail ==
    \A r \in Requests :
        Arrives(r, "create_student") /\ response'[r].status # 422 =>
            LET e == body'[r].email.v
            IN IF \E i \in DOMAIN students : students[i].email = e
               THEN /\ response'[r] = Unhandled("IntegrityError")
                    /\ students' = students
               ELSE /\ pc'[r] = "refresh"
                    /\ \E i \in DOMAIN students' \ DOMAIN students :
                         /\ DOMAIN students' = DOMAIN students \cup {i}
                         /\ students'[i].email = e
                    /\ \A j \in DOMAIN students : students'[j] = students[j]

OneOfTwoCreates ==
    \A c1, c2 \in Requests :
        ( /\ c1 # c2
          /\ IsCreate(c1) /\ IsCreate(c2)
          /\ body[c1].email = body[c2].email
          /\ \A q \in Requests : ReadOnly(q) ) =>
            /\ ~(Created(c1) /\ Created(c2))
            /\ ~Created(c1) => response[c1] = Unhandled("IntegrityError")
            /\ ~Created(c1) /\ ~Created(c2) =>
                 \E i \in DOMAIN students :
                     students[i].email = body[c1].email.v

(* C1: no two rows of the table ever share an e-mail; a create whose e-mail  *)
(* is in the table fails with IntegrityError and changes no row, any other   *)
(* valid create adds exactly one row; and of two creates with the same       *)
(* e-mail (no row updated or deleted meanwhile) at most one succeeds, the    *)
(* other fails with IntegrityError, and both fail only while a row that     *)
(* neither of them made holds the e-mail.                                    *)
C1_UniqueEmail ==
    /\ [](UniqueEmails /\ OneOfTwoCreates)
    /\ [][CreateDecidedByEmail]_vars

\* Two creates with one e-mail, interleaved: the second failed between the
\* first one's commit and its refresh.
C1_Witness ==
    \E c1, c2 \in Requests :
        /\ c1 # c2 /\ IsCreate(c1) /\ IsCreate(c2)
        /\ body[c1].email = body[c2].email
        /\ Created(c1) /\ pc[c1] = "refresh"
        /\ pc[c2] = "done" /\ response[c2] = Unhandled("IntegrityError")
        /\ \A i \in DOMAIN students :
             students[i].email = body[c1].email.v => i = db_student[c1].id

\* -------------------------------------------------------------------- C2
CreateAssignsNewId ==
    \A c \in Requests :
        Arrives(c, "create_student") /\ pc'[c] = "refresh" =>
            LET i == db_student'[c].id
            IN /\ i \notin DOMAIN students
               /\ \A j \in DOMAIN students : j < i
               /\ i \in DOMAIN students'
               /\ students'[i] = StudentCreate(body'[c])

GetAfterCreate ==
    \A c, g \in Requests :
        ( /\ Created(c)
          /\ Arrives(g, "get_student")
          /\ student_id'[g] = db_student[c].id
          /\ Untouched(db_student[c].id) ) =>
            response'[g] = Ok({CreatedRecord(c)})

CreateReturnsCreated ==
    \A c \in Requests :
        op[c] = "create_student" /\ pc[c] = "done" /\ response[c].status = 200 =>
            /\ \E x \in response[c].students :
                 response[c].students = {x} /\ x.id = db_student[c].id
            /\ Untouched(db_student[c].id) => response[c] = Ok({CreatedRecord(c)})

(* C2: a successful create stores the validated body under an id that is     *)
(* not in the table and above every id in it, and returns that record; a get *)
(* on that id, with no update or delete of the id committed, returns the     *)
(* record equal in id, name, age, address and email.                         *)
C2_CreateThenGet ==
    /\ []CreateReturnsCreated
    /\ [][CreateAssignsNewId /\ GetAfterCreate]_vars

\* A body whose age came as a string was created; the create and a later get
\* returned the same record, with the age as a number.
C2_Witness ==
    \E c, g \in Requests :
        /\ op[c] = "create_student" /\ pc[c] = "done" /\ body[c] = BodyAlice2
        /\ op[g] = "get_student" /\ pc[g] = "done"
        /\ student_id[g] = db_student[c].id
        /\ response[c] = Ok({CreatedRecord(c)})
        /\ response[g] = response[c]
        /\ \E x \in response[g].students : x.age = 21

\* -------------------------------------------------------------------- C3
(* C3: the commit of an update that succeeds leaves the row of its id equal  *)
(* to the body in name, age, address and email, under the same id, and       *)
(* leaves every other row as it was.                                         *)
C3_FullReplacement ==
    [][\A r \in Requests :
         ( /\ pc[r] = "loaded" /\ op[r] = "update_student"
           /\ pc'[r] = "refresh" ) =>
             /\ DOMAIN students' = DOMAIN students
             /\ student_id[r] \in DOMAIN students'
             /\ students'[student_id[r]] = StudentCreate(body[r])
             /\ \A j \in DOMAIN students :
                  j # student_id[r] => students'[j] = students[j]]_vars

\* -------------------------------------------------------------------- C4
DeletedIsGone ==
    \A d \in Requests :
        op[d] = "delete_student" /\ pc[d] = "done" /\ response[d].status = 200 =>
            student_id[d] \notin DOMAIN students

GetAfterDelete ==
    \A d, g \in Requests :
        ( /\ op[d] = "delete_student" /\ pc[d] = "done"
          /\ response[d].status = 200
          /\ Arrives(g, "get_student")
          /\ student_id'[g] = student_id[d] ) =>
            response'[g] = NotFound

(* C4: once a delete of an id has returned its confirmation, the table holds *)
(* no row with that id, and every get on that id from then on is answered    *)
(* 404 "Student not found".                                                  *)
C4_DeleteThenGet ==
    /\ []DeletedIsGone
    /\ [][GetAfterDelete]_vars

\* A delete confirmed, and a get that arrived after it was answered 404.
C4_Witness ==
    \E d, g \in Requests :
        /\ d < g
        /\ op[d] = "delete_student" /\ pc[d] = "done"
        /\ response[d] = Deleted(student_id[d])
        /\ op[g] = "get_student" /\ pc[g] = "done"
        /\ student_id[g] = student_id[d]
        /\ response[g] = NotFound
        /\ response[g].status = 404 /\ response[g].detail = "Student not found"

\* -------------------------------------------------------------------- C5
ArrivesAtMissingId(r) ==
    /\ \/ Arrives(r, "get_student")
       \/ Arrives(r, "update_student")
       \/ Arrives(r, "delete_student")
    /\ student_id'[r] \notin DOMAIN students

(* C5: every get, every delete and every update that reaches its handler     *)
(* (its body is valid) and arrives for an id without a row is answered 404   *)
(* "Student not found", at once and with the table unchanged, never 500; an  *)
(* update whose body is invalid is stopped before the handler with a 422.    *)
C5_NotFound ==
    [][\A r \in Requests :
         ArrivesAtMissingId(r) =>
             /\ pc'[r] = "done"
             /\ students' = students
             /\ IF op'[r] = "update_student" /\ ~StudentCreateValid(body'[r])
                THEN response'[r] = ValidationError
                ELSE response'[r] = NotFound /\ response'[r].status = 404]_vars

\* A get, an update or a delete was answered 404 while the table held rows,
\* none of them with the id asked for.
C5_Witness ==
    \E r \in Requests :
        /\ op[r] \in {"get_student", "update_student", "delete_student"}
        /\ pc[r] = "done" /\ response[r] = NotFound
        /\ students # EmptyTable
        /\ student_id[r] \notin DOMAIN students
        /\ \A q \in Requests : ReadOnly(q) /\ ~Created(q)

\* -------------------------------------------------------------------- C6
(* C6: a request that failed on the e-mail's uniqueness is answered with a   *)
(* 4xx status.                                                               *)
C6_ConstraintViolationIs4xx ==
    \A r \in Requests :
        response[r].error = "IntegrityError" => response[r].status \in 400..499

\* -------------------------------------------------------------------- C7
(* C7: no two requests hold the same session; a request in its handler holds *)
(* an open session; and once a request is done, on whatever path (200, 404,  *)
(* 422, or an error raised at commit or refresh), its session is closed, so  *)
(* every open session belongs to a request still being handled.              *)
C7_SessionScoped ==
    /\ \A r1, r2 \in Requests :
         r1 # r2 /\ db[r1] # 0 => db[r1] # db[r2]
    /\ \A r \in Requests :
         /\ pc[r] \in {"loaded", "refresh"} => sessions[db[r]].state = "open"
         /\ pc[r] = "done" => sessions[db[r]].state = "closed"
    /\ \A s \in DOMAIN sessions :
         sessions[s].state = "open" =>
             \E r \in Requests : db[r] = s /\ pc[r] \in {"loaded", "refresh"}

\* One request ended on a storage error raised at commit, another on a
\* validation failure; both sessions are closed.
C7_Witness ==
    \E r1, r2 \in Requests :
        /\ pc[r1] = "done" /\ response[r1].status = 500
        /\ sessions[db[r1]] = [state |-> "closed", statements |-> 1]
        /\ pc[r2] = "done" /\ response[r2].status = 422
        /\ sessions[db[r2]] = [state |-> "closed", statements |-> 0]

\* -------------------------------------------------------------------- C8
MissingField(b) == \E f \in Fields : f \notin DOMAIN b

WrongType(b) ==
    /\ ~MissingField(b)
    /\ \/ b.name.t # "string"
       \/ b.address.t # "string"
       \/ b.age.t \notin {"number", "string"}
       \/ b.age.t = "string" /\ \E k \in 1..Len(b.age.v) : ~IsDigit(b.age.v[k])

BadEmailSyntax(b) ==
    /\ ~MissingField(b)
    /\ b.email.t = "string"
    /\ \A k \in 1..Len(b.email.v) : b.email.v[k] # "@"

Malformed(b) == MissingField(b) \/ WrongType(b) \/ BadEmailSyntax(b)

C9_Original ==
    \A i \in DOMAIN students :
        Len(students[i].name) > 0 /\ Len(students[i].address) > 0

SentAsText(f, text) ==
    \E r \in Requests :
        /\ op[r] \in {"create_student", "update_student"}
        /\ f \in DOMAIN body[r]
        /\ body[r][f].t = "string"
        /\ body[r][f].v = text

(* C9 amended: the name and the address of every row are texts: each was in  *)
(* the table at the start or was sent as a JSON string in the body of a      *)
(* create or update; the empty string is accepted and stored.                *)
C9_TextFields ==
    \A i \in DOMAIN students :
        /\ students[i].name = RowAlice.name \/ SentAsText("name", students[i].name)
        /\ \/ students[i].address \in {RowAlice.address, RowAlice2.address}
           \/ SentAsText("address", students[i].address)

\* A row with an empty name and an empty address is in the table.
C9_Witness ==
    \E i \in DOMAIN students :
        students[i].name = <<>> /\ students[i].address = <<>>

\* ------------------------------------------------------------------- C10
(* C10: of the delete requests for one id, at most one is answered with the  *)
(* confirmation "Student with ID {id} deleted".                              *)
C10_OneDeleteConfirmed ==
    \A d1, d2 \in Requests :
        ( /\ d1 # d2
          /\ op[d1] = "delete_student" /\ op[d2] = "delete_student"
          /\ student_id[d1] = student_id[d2]
          /\ pc[d1] = "done" /\ pc[d2] = "done" ) =>
            ~(response[d1].status = 200 /\ response[d2].status = 200)

====
